---- MODULE Spec2Model ----
(***************************************************************************)
(* Model of the attendance core of the smart face attendance system:       *)
(*   - the legacy module db.py (mark_attendance with AUTO / IN / OUT),      *)
(*   - database/attendance_repository.py                                    *)
(*       (AttendanceRepository.mark_attendance),                            *)
(*   - face_recognition/recognition_engine.py                               *)
(*       (FaceRecognitionEngine.recognize_face, cosine_similarity),         *)
(*   - face_recognition/image_utils.py and face_utils.py                    *)
(*       (resize_embedding_to_512, the legacy cosine_similarity),           *)
(*   - database/student_repository.py, services/student_service.py and      *)
(*     services/attendance_service.py (get_student_embeddings,              *)
(*       delete_student, mark_attendance_by_recognition).                   *)
(* Every call opens a connection of its own (get_db_connection); Python's   *)
(* sqlite3 runs a SELECT outside any transaction and opens one at the       *)
(* first INSERT / UPDATE, closed by conn.commit().  A call is therefore a   *)
(* sequence of atomic database steps, and the steps of concurrent calls     *)
(* (one Streamlit session thread each) interleave.                          *)
(***************************************************************************)
EXTENDS Integers, Sequences, FiniteSets, TLC

\* ---------------------------------------------------------------- bounds
MaxStudent == 2     \* student ids 1..MaxStudent
MaxDate == 2        \* calendar dates 1..MaxDate
MaxTime == 2        \* wall-clock readings 1..MaxTime
NumProcs == 2       \* concurrent callers
SimScale == 4       \* similarity 1.0 on the integer similarity scale
MaxPool == 3        \* longest candidate pool
MaxLen == 3         \* longest embedding vector
MaxComp == 1        \* largest component of an embedding, in float32 steps
MaxRows == 2        \* most rows of table face_embeddings
MaxUser == 3        \* user ids and email addresses 1..MaxUser
MaxToken == 2       \* reset tokens 1..MaxToken
MaxPassword == 2    \* passwords 1..MaxPassword
MaxClock == 3       \* readings of the clock 1..MaxClock

\* A NULL column (time_in TEXT / time_out TEXT without NOT NULL).
NULL == 0

StudentIds == 1..MaxStudent
Dates == 1..MaxDate
Times == 1..MaxTime
Procs == 1..NumProcs
ActionNames == {"AUTO", "IN", "OUT"}

VARIABLES
    impl,          \* "db": the legacy db.py;  "repo": AttendanceRepository
    students,      \* ids of the rows of table students
    attendance,    \* rows of table attendance
    nextId,        \* AUTOINCREMENT of attendance.id
    today,         \* date.today()
    pc,            \* per caller: "idle", "select" (repo only), "write"
    student_id,    \* per caller: argument student_id
    action,        \* per caller: argument action (db.py only)
    call_today,    \* per caller: local today
    op,            \* per caller: the statement the branch taken will execute
    existing_id,   \* per caller: existing['id'] of the row fetched
    last,          \* the call that returned in the step just taken, or NoCall
    student_info,  \* per caller: student_info of mark_attendance_by_recognition
    embedding_ok,  \* recognize_face: generate_embedding returned a vector
    known,         \* recognize_face: the pool, as <<student_id, similarity>>
    known_embeddings, \* recognize_face: the pool, as <<student_id, known_embedding>>
    threshold,     \* recognize_face: self.recognition_threshold
    result,        \* recognize_face: the tuple returned; run: it has returned
    embedding1,    \* cosine_similarity / resize_embedding_to_512: first argument
    embedding2,    \* cosine_similarity: second argument
    embedding_size,\* config.settings.EMBEDDING_SIZE
    scorer,        \* "engine": FaceRecognitionEngine;  "legacy": face_utils.py
    cosine,    \* cosine_similarity: the value returned; run: it has returned
    resized,       \* resize_embedding_to_512: the array returned; run: as above
    active,        \* ids of the students with is_active = 1
    face_embeddings, \* table face_embeddings in rowid order, as student_id
    users,         \* rows of table users
    upc,           \* per caller of the user operations: "idle", "delete", "update"
    uarg,          \* per caller: the arguments of the call in progress
    clock,         \* datetime.now()
    nextToken,     \* the token secrets.token_urlsafe(32) returns next
    consumed,      \* history: <<email, token>> of the successful resets
    reply          \* the user operation that returned in the step just taken

attVars == <<impl, students, attendance, nextId, today, pc, student_id,
             action, call_today, op, existing_id, last, student_info>>
recVars == <<embedding_ok, known, known_embeddings, threshold, result>>
vecVars == <<embedding1, embedding2, embedding_size, scorer, cosine, resized>>
stuVars == <<active, face_embeddings>>
usrVars == <<users, upc, uarg, clock, nextToken, consumed, reply>>
vars == <<impl, students, attendance, nextId, today, pc, student_id,
          action, call_today, op, existing_id, last, student_info,
          embedding_ok, known, known_embeddings, threshold, result,
          embedding1, embedding2, embedding_size, scorer, cosine, resized,
          active, face_embeddings,
          users, upc, uarg, clock, nextToken, consumed, reply>>

\* ------------------------------------------------------- table attendance

\* fetchone() of a query that matched nothing.
NoRow == [id |-> 0, student_id |-> 0, date |-> 0, time_in |-> NULL, time_out |-> NULL]

Matching(att, s, d) == {r \in att : r.student_id = s /\ r.date = d}

\* SELECT id, time_in, time_out FROM attendance WHERE student_id = ? AND date = ?
\* followed by fetchone(): the first matching row in rowid order, or None.
SelectToday_AnyDate(att, s, d) ==
    IF {r \in att : r.student_id = s} = {} THEN NoRow
    ELSE CHOOSE r \in att :
             r.student_id = s /\ \A q \in att : q.student_id = s => r.id <= q.id

SelectToday(att, s, d) ==
    IF Matching(att, s, d) = {} THEN NoRow
    ELSE CHOOSE r \in Matching(att, s, d) :
             \A q \in Matching(att, s, d) : r.id <= q.id

\* UNIQUE(student_id, date): would a new row for (s, d) violate it?
UniqueViolation_Off(att, s, d) == FALSE

UniqueViolation(att, s, d) == Matching(att, s, d) # {}

\* FOREIGN KEY (student_id) REFERENCES students(id), PRAGMA foreign_keys = ON.
ForeignKeyViolation(studs, s) == s \notin studs

\* INSERT INTO attendance (student_id, date, time_in) VALUES (?, ?, ?)
NewRow_TimeOut(id, s, d, t) ==
    [id |-> id, student_id |-> s, date |-> d, time_in |-> NULL, time_out |-> t]

NewRow(id, s, d, t) ==
    [id |-> id, student_id |-> s, date |-> d, time_in |-> t, time_out |-> NULL]

\* UPDATE attendance SET time_out = ? WHERE student_id = ? AND date = ?
UpdateTimeOut(att, s, d, t) ==
    {IF r.student_id = s /\ r.date = d THEN [r EXCEPT !.time_out = t] ELSE r : r \in att}

\* UPDATE attendance SET time_in = ? WHERE student_id = ? AND date = ?
UpdateTimeIn(att, s, d, t) ==
    {IF r.student_id = s /\ r.date = d THEN [r EXCEPT !.time_in = t] ELSE r : r \in att}

\* UPDATE attendance SET time_out = ?, marked_by = ? WHERE id = ?
UpdateTimeOutById(att, id, t) ==
    {IF r.id = id THEN [r EXCEPT !.time_out = t] ELSE r : r \in att}

\* ------------------------------------------------------------- db.py

Ret_Failure(ok, msg) == [success |-> FALSE, message |-> msg]

Ret(ok, msg) == [success |-> ok, message |-> msg]

\* student_info = None: no student has been recognized.
NoInfo == [student_id |-> 0]

\* The step just taken returned from no call.
NoCall == [student_id |-> 0, action |-> "AUTO", success |-> FALSE, message |-> "none"]

\* The branch of db.mark_attendance taken for the row fetched: the statement
\* to execute ("NONE": return at once) and the value returned when it commits.
mark_attendance_branch_Reopen(existing_record, act) ==
    IF existing_record = NoRow THEN
        [op |-> "INSERT", ret |-> Ret(TRUE, "Entry marked")]
    ELSE [op |-> "UPDATE_OUT", ret |-> Ret(TRUE, "Exit marked")]

mark_attendance_branch_InAgain(existing_record, act) ==
    IF existing_record = NoRow THEN
        [op |-> "INSERT", ret |-> Ret(TRUE, "Entry marked")]
    ELSE IF act = "IN" THEN
        [op |-> "UPDATE_IN", ret |-> Ret(TRUE, "Entry marked")]
    ELSE IF existing_record.time_out # NULL THEN
        [op |-> "NONE", ret |-> Ret(FALSE, "Attendance already complete for today")]
    ELSE [op |-> "UPDATE_OUT", ret |-> Ret(TRUE, "Exit marked")]

mark_attendance_branch(existing_record, act) ==
    IF existing_record = NoRow THEN
        [op |-> "INSERT", ret |-> Ret(TRUE, "Entry marked")]
    ELSE IF act = "AUTO" THEN
        IF existing_record.time_in # NULL /\ existing_record.time_out = NULL THEN
            [op |-> "UPDATE_OUT", ret |-> Ret(TRUE, "Exit marked")]
        ELSE IF existing_record.time_in # NULL /\ existing_record.time_out # NULL THEN
            [op |-> "NONE", ret |-> Ret(FALSE, "Attendance already complete for today")]
        ELSE [op |-> "UPDATE_IN", ret |-> Ret(TRUE, "Entry marked")]
    ELSE IF act = "IN" THEN
        IF existing_record.time_in # NULL THEN
            [op |-> "NONE", ret |-> Ret(FALSE, "Entry already marked today")]
        ELSE [op |-> "UPDATE_IN", ret |-> Ret(TRUE, "Entry marked")]
    ELSE \* act = "OUT"
        IF existing_record.time_in = NULL THEN
            [op |-> "NONE", ret |-> Ret(FALSE, "Cannot mark exit before entry")]
        ELSE IF existing_record.time_out # NULL THEN
            [op |-> "NONE", ret |-> Ret(FALSE, "Exit already marked today")]
        ELSE [op |-> "UPDATE_OUT", ret |-> Ret(TRUE, "Exit marked")]

\* The value returned once the statement o has run: its success message, or
\* the except clause's message when the INSERT raised IntegrityError.
SuccessMessage(o) ==
    CASE o = "INSERT" -> "Entry marked"
      [] o = "UPDATE_IN" -> "Entry marked"
      [] o = "UPDATE_OUT" -> "Exit marked"
      [] o = "REPO_INSERT" -> "Attendance marked"
      [] o = "REPO_UPDATE_OUT" -> "Time-out marked"

\* The call of caller p with arguments (s, a) returns r.
Return(p, s, a, r) ==
    /\ pc' = [pc EXCEPT ![p] = "idle"]
    /\ last' = [student_id |-> s, action |-> a,
                success |-> r.success, message |-> r.message]
    /\ student_id' = [student_id EXCEPT ![p] = 0]
    /\ action' = [action EXCEPT ![p] = "AUTO"]
    /\ call_today' = [call_today EXCEPT ![p] = 0]
    /\ op' = [op EXCEPT ![p] = "NONE"]
    /\ existing_id' = [existing_id EXCEPT ![p] = 0]
    /\ student_info' = [student_info EXCEPT ![p] = NoInfo]

Goto(p, next, s, a, d, o, id) ==
    /\ pc' = [pc EXCEPT ![p] = next]
    /\ student_id' = [student_id EXCEPT ![p] = s]
    /\ action' = [action EXCEPT ![p] = a]
    /\ call_today' = [call_today EXCEPT ![p] = d]
    /\ op' = [op EXCEPT ![p] = o]
    /\ existing_id' = [existing_id EXCEPT ![p] = id]
    /\ last' = NoCall
    /\ UNCHANGED student_info

\* db.mark_attendance up to the branch (now: what datetime.now() returns, a
\* wall-clock reading the code only stores): today and current_time
\* are read, today's row is fetched, and a branch that writes nothing returns.
mark_attendance_select(p, s, a) ==
    /\ impl = "db"
    /\ pc[p] = "idle"
    /\ LET existing_record == SelectToday(attendance, s, today)
           b == mark_attendance_branch(existing_record, a)
       IN  IF b.op = "NONE"
           THEN Return(p, s, a, b.ret)
           ELSE Goto(p, "write", s, a, today, b.op, 0)
    /\ UNCHANGED <<impl, students, attendance, nextId, today>>
    /\ UNCHANGED <<recVars, vecVars, stuVars, usrVars>>

\* db.mark_attendance: the INSERT or UPDATE of the branch taken, conn.commit()
\* and the return; an IntegrityError of the INSERT reaches the except clause.
mark_attendance_write(p, current_time) ==
    /\ impl = "db"
    /\ pc[p] = "write"
    /\ LET s == student_id[p]
           d == call_today[p]
           t == current_time
           raised == /\ op[p] = "INSERT"
                     /\ (UniqueViolation(attendance, s, d) \/ ForeignKeyViolation(students, s))
       IN  /\ attendance' =
                 IF raised THEN attendance
                 ELSE CASE op[p] = "INSERT" -> attendance \cup {NewRow(nextId, s, d, t)}
                        [] op[p] = "UPDATE_OUT" -> UpdateTimeOut(attendance, s, d, t)
                        [] op[p] = "UPDATE_IN" -> UpdateTimeIn(attendance, s, d, t)
           /\ nextId' = IF op[p] = "INSERT" /\ ~raised THEN nextId + 1 ELSE nextId
           /\ Return(p, s, action[p],
                     IF raised THEN Ret(FALSE, "Error marking attendance")
                     ELSE Ret(TRUE, SuccessMessage(op[p])))
    /\ UNCHANGED <<impl, students, today>>
    /\ UNCHANGED <<recVars, vecVars, stuVars, usrVars>>

\* ------------------------------------------ AttendanceRepository

\* The branch of AttendanceRepository.mark_attendance for the row fetched.
AttendanceRepository_branch_Reopen(existing) ==
    IF existing = NoRow THEN
        [op |-> "REPO_INSERT", ret |-> Ret(TRUE, "Attendance marked")]
    ELSE [op |-> "REPO_UPDATE_OUT", ret |-> Ret(TRUE, "Time-out marked")]

AttendanceRepository_branch(existing) ==
    IF existing # NoRow THEN
        IF existing.time_in # NULL /\ existing.time_out = NULL THEN
            [op |-> "REPO_UPDATE_OUT", ret |-> Ret(TRUE, "Time-out marked")]
        ELSE [op |-> "NONE", ret |-> Ret(FALSE, "Attendance already marked")]
    ELSE [op |-> "REPO_INSERT", ret |-> Ret(TRUE, "Attendance marked")]

\* AttendanceRepository.mark_attendance up to the student check: today and
\* now are read and SELECT name FROM students WHERE id = ? is fetched.
AttendanceRepository_lookup(p, s) ==
    /\ impl = "repo"
    /\ pc[p] = "idle"
    /\ IF s \notin students
       THEN Return(p, s, "AUTO", Ret(FALSE, "Student not found"))
       ELSE Goto(p, "select", s, "AUTO", today, "NONE", 0)
    /\ UNCHANGED <<impl, students, attendance, nextId, today>>
    /\ UNCHANGED <<recVars, vecVars, stuVars, usrVars>>

\* AttendanceRepository.mark_attendance: today's row is fetched and the branch
\* is chosen; the branch that writes nothing returns.
AttendanceRepository_select(p) ==
    /\ impl = "repo"
    /\ pc[p] = "select"
    /\ LET existing == SelectToday(attendance, student_id[p], call_today[p])
           b == AttendanceRepository_branch(existing)
       IN  IF b.op = "NONE"
           THEN Return(p, student_id[p], action[p], b.ret)
           ELSE Goto(p, "write", student_id[p], action[p], call_today[p],
                     b.op, existing.id)
    /\ UNCHANGED <<impl, students, attendance, nextId, today>>
    /\ UNCHANGED <<recVars, vecVars, stuVars, usrVars>>

\* AttendanceRepository.mark_attendance: the UPDATE ... WHERE id = ? or the
\* INSERT, conn.commit() and the return; an IntegrityError of the INSERT
\* reaches the except clause.
AttendanceRepository_write(p, now) ==
    /\ impl = "repo"
    /\ pc[p] = "write"
    /\ LET s == student_id[p]
           d == call_today[p]
           t == now
           raised == /\ op[p] = "REPO_INSERT"
                     /\ (UniqueViolation(attendance, s, d) \/ ForeignKeyViolation(students, s))
       IN  /\ attendance' =
                 IF raised THEN attendance
                 ELSE CASE op[p] = "REPO_INSERT" -> attendance \cup {NewRow(nextId, s, d, t)}
                        [] op[p] = "REPO_UPDATE_OUT" -> UpdateTimeOutById(attendance, existing_id[p], t)
           /\ nextId' = IF op[p] = "REPO_INSERT" /\ ~raised THEN nextId + 1 ELSE nextId
           /\ Return(p, s, action[p],
                     IF raised THEN Ret(FALSE, "Error marking attendance")
                     ELSE Ret(TRUE, SuccessMessage(op[p])))
    /\ UNCHANGED <<impl, students, today>>
    /\ UNCHANGED <<recVars, vecVars, stuVars, usrVars>>

\* ------------------------------------------------------- environment

\* date.today() rolls over.
NextDay ==
    /\ today < MaxDate
    /\ today' = today + 1
    /\ last' = NoCall
    /\ UNCHANGED <<impl, students, attendance, nextId, pc, student_id, action,
                   call_today, op, existing_id, student_info>>
    /\ UNCHANGED <<recVars, vecVars, stuVars, usrVars>>

\* ------------------------------------------------------ specification

\* ------------------------------------------- FaceRecognitionEngine

\* What cosine_similarity returns: np.clip(similarity, -1.0, 1.0), on an
\* integer scale where SimScale stands for 1.0.
Similarities == (0 - SimScale)..SimScale

\* self.recognition_threshold (RECOGNITION_THRESHOLD, default 0.5): a minimum
\* similarity between 0.0 and 1.0.
Thresholds == 0..SimScale

\* best_match = None
None == 0

\* known_embeddings: a list of candidates (student_id, name, roll_number,
\* known_embedding), each kept as <<student_id, similarity>> where similarity
\* is cosine_similarity(input_embedding, known_embedding).
Candidates == StudentIds \X Similarities

Pools == UNION {[1..n -> Candidates] : n \in 0..MaxPool}

\* if similarity > best_similarity
Better_LastWins(similarity, best_similarity) == TRUE

Better_OrEqual(similarity, best_similarity) == similarity >= best_similarity

Better(similarity, best_similarity) == similarity > best_similarity

\* if best_similarity >= self.recognition_threshold
MeetsThreshold(best_similarity, thr) == best_similarity >= thr

\* The loop over known_embeddings from candidate i on.
RECURSIVE Scan(_, _, _, _)
Scan(pool, i, best_similarity, best_match) ==
    IF i > Len(pool) THEN
        [best_similarity |-> best_similarity, best_match |-> best_match]
    ELSE IF Better(pool[i][2], best_similarity) THEN
        Scan(pool, i + 1, pool[i][2], pool[i][1])
    ELSE Scan(pool, i + 1, best_similarity, best_match)

MatchResult(m, id, c) == [matched |-> m, identity |-> id, confidence |-> c]

\* recognize_face(input_image, known_embeddings).  emb_ok: generate_embedding
\* returned a vector.  When the threshold is met with best_match still None,
\* best_match['name'] raises TypeError and the except clause returns.
recognize_face_NoneMatch(emb_ok, pool, thr) ==
    IF ~emb_ok THEN MatchResult(FALSE, None, 0)
    ELSE LET b == Scan(pool, 1, 0, None)
         IN  IF MeetsThreshold(b.best_similarity, thr) THEN
                 MatchResult(TRUE, b.best_match, b.best_similarity)
             ELSE MatchResult(FALSE, None, b.best_similarity)

recognize_face(emb_ok, pool, thr) ==
    IF ~emb_ok THEN MatchResult(FALSE, None, 0)
    ELSE LET b == Scan(pool, 1, 0, None)
         IN  IF MeetsThreshold(b.best_similarity, thr) THEN
                 IF b.best_match = None THEN MatchResult(FALSE, None, 0)
                 ELSE MatchResult(TRUE, b.best_match, b.best_similarity)
             ELSE MatchResult(FALSE, None, b.best_similarity)

RecIdle ==
    /\ embedding_ok = TRUE
    /\ known = <<>>
    /\ known_embeddings = <<>>
    /\ threshold = 0
    /\ result = [matched |-> FALSE, identity |-> None, confidence |-> 0, run |-> FALSE]

\* A call of recognize_face returns.
recognize_face_call ==
    /\ result.run = FALSE
    /\ LET r == recognize_face(embedding_ok, known, threshold)
       IN  result' = [matched |-> r.matched, identity |-> r.identity,
                      confidence |-> r.confidence, run |-> TRUE]
    /\ UNCHANGED <<embedding_ok, known, known_embeddings, threshold>>
    /\ UNCHANGED <<attVars, vecVars, stuVars, usrVars>>

\* ------------------------------------------------------ embeddings

\* The literal 512 (np.zeros(512), EMBEDDING_SIZE = 512), on the scale of
\* lengths of the model, where EMBEDDING_SIZE ranges over 1..MaxLen.
DefaultEmbeddingSize == 2

\* A real number is a count of half steps of float32; the float32 values are
\* the even counts.  dtype=np.float32 rounds to the nearest, ties to even.
Float32(x) ==
    IF x % 2 = 0 THEN x
    ELSE IF (x + 1) % 4 = 0 THEN x + 1
    ELSE x - 1

\* The components of an embedding the callers pass: float32 values.
Components == {2 * k : k \in (0 - MaxComp)..MaxComp}

Vectors == UNION {[1..n -> Components] : n \in 0..MaxLen}

\* np.zeros(n, dtype=np.float32)
Zeros(n) == [i \in 1..n |-> 0]

\* np.array(embedding, dtype=np.float32) of a sequence of numbers.
AsArray(elems) == [i \in 1..Len(elems) |-> Float32(elems[i])]

\* padded = np.zeros(EMBEDDING_SIZE); padded[:len(embedding)] = embedding
Pad_Front(e, D) == Zeros(D - Len(e)) \o e

Pad(e, D) == [i \in 1..D |-> IF i <= Len(e) THEN e[i] ELSE 0]

\* image_utils.resize_embedding_to_512 with EMBEDDING_SIZE = D.  embedding is
\* [array |-> it is a sequence of numbers, elems |-> its elements]; of
\* anything else (None, a scalar) np.array(...).shape[0] raises IndexError
\* and the except clause returns np.zeros(512).
resize_embedding_to_512(embedding, D) ==
    IF ~embedding.array THEN Zeros(DefaultEmbeddingSize)
    ELSE LET e == AsArray(embedding.elems)
         IN  IF Len(e) = D THEN e
             ELSE IF Len(e) > D THEN SubSeq(e, 1, D)
             ELSE Pad(e, D)

\* face_utils.resize_embedding_to_512, with the module's EMBEDDING_SIZE = 512.
legacy_resize_embedding_to_512(embedding) ==
    IF ~embedding.array THEN Zeros(DefaultEmbeddingSize)
    ELSE LET e == AsArray(embedding.elems)
         IN  IF Len(e) = DefaultEmbeddingSize THEN e
             ELSE IF Len(e) > DefaultEmbeddingSize THEN SubSeq(e, 1, DefaultEmbeddingSize)
             ELSE e \o Zeros(DefaultEmbeddingSize - Len(e))

\* np.dot(emb1, emb2) of two arrays of one length, from position i on.
RECURSIVE DotFrom(_, _, _)
DotFrom(emb1, emb2, i) ==
    IF i > Len(emb1) THEN 0
    ELSE emb1[i] * emb2[i] + DotFrom(emb1, emb2, i + 1)

Isqrt(n) == CHOOSE r \in 0..n : r * r <= n /\ (r + 1) * (r + 1) > n

\* np.linalg.norm(emb), in units of 1 / SimScale, rounded down.
Norm(emb) == Isqrt(DotFrom(emb, emb, 1) * SimScale * SimScale)

\* nan, the quotient 0.0 / 0.0 of two numpy floats.
NaN == 3 * SimScale

\* dot_product / (norm1 * norm2) on the similarity scale, rounded towards zero.
Divide(dot_product, norm1, norm2) ==
    LET num == dot_product * SimScale * SimScale * SimScale
        den == norm1 * norm2
    IN  IF den = 0 THEN NaN
        ELSE IF num >= 0 THEN num \div den
        ELSE 0 - ((0 - num) \div den)

\* if norm1 == 0 or norm2 == 0
ZeroNorm_Off(norm1, norm2) == FALSE

ZeroNorm(norm1, norm2) == norm1 = 0 \/ norm2 = 0

\* np.clip(similarity, -1.0, 1.0)
Clip(x) ==
    IF x = NaN THEN NaN
    ELSE IF x < 0 - SimScale THEN 0 - SimScale
    ELSE IF x > SimScale THEN SimScale
    ELSE x

\* max(0.0, min(1.0, similarity)): a comparison with nan is false.
MaxMin(x) ==
    LET m == IF x # NaN /\ x < SimScale THEN x ELSE SimScale
    IN  IF m > 0 THEN m ELSE 0

\* FaceRecognitionEngine.cosine_similarity.  np.dot of arrays of different
\* lengths raises ValueError and the except clause returns 0.0.
FaceRecognitionEngine_cosine_similarity(e1, e2) ==
    LET emb1 == AsArray(e1)
        emb2 == AsArray(e2)
    IN  IF Len(emb1) # Len(emb2) THEN 0
        ELSE LET dot_product == DotFrom(emb1, emb2, 1)
                 norm1 == Norm(emb1)
                 norm2 == Norm(emb2)
             IN  IF ZeroNorm(norm1, norm2) THEN 0
                 ELSE Clip(Divide(dot_product, norm1, norm2))

\* face_utils.cosine_similarity.
legacy_cosine_similarity(e1, e2) ==
    LET emb1 == legacy_resize_embedding_to_512([array |-> TRUE, elems |-> e1])
        emb2 == legacy_resize_embedding_to_512([array |-> TRUE, elems |-> e2])
        dot_product == DotFrom(emb1, emb2, 1)
        norm1 == Norm(emb1)
        norm2 == Norm(emb2)
    IN  IF ZeroNorm(norm1, norm2) THEN 0
        ELSE MaxMin(Divide(dot_product, norm1, norm2))

cosine_similarity(which, e1, e2) ==
    IF which = "engine" THEN FaceRecognitionEngine_cosine_similarity(e1, e2)
    ELSE legacy_cosine_similarity(e1, e2)

VecIdle ==
    /\ embedding1 = [array |-> TRUE, elems |-> <<>>]
    /\ embedding2 = <<>>
    /\ embedding_size = DefaultEmbeddingSize
    /\ scorer = "engine"
    /\ cosine = [value |-> 0, run |-> FALSE]
    /\ resized = [value |-> <<>>, run |-> FALSE]

\* A call of cosine_similarity on two sequences of numbers returns.
cosine_similarity_call ==
    /\ cosine.run = FALSE
    /\ embedding1.array
    /\ cosine' = [value |-> cosine_similarity(scorer, embedding1.elems, embedding2),
                      run |-> TRUE]
    /\ UNCHANGED <<embedding1, embedding2, embedding_size, scorer, resized>>
    /\ UNCHANGED <<attVars, recVars, stuVars, usrVars>>

\* A call of image_utils.resize_embedding_to_512 returns.
resize_embedding_to_512_call ==
    /\ resized.run = FALSE
    /\ resized' = [value |-> resize_embedding_to_512(embedding1, embedding_size),
                   run |-> TRUE]
    /\ UNCHANGED <<embedding1, embedding2, embedding_size, scorer, cosine>>
    /\ UNCHANGED <<attVars, recVars, stuVars, usrVars>>

\* The stored embeddings: arrays of DefaultEmbeddingSize float32 values.
Embeddings == [1..DefaultEmbeddingSize -> Components]

\* known_embeddings with the embeddings themselves.
EmbeddingPools == UNION {[1..n -> StudentIds \X Embeddings] : n \in 0..MaxRows}

\* similarity = self.cosine_similarity(input_embedding, known_embedding) for
\* each candidate of known_embeddings, in order.
Similarity(input_embedding, embeddings) ==
    [i \in 1..Len(embeddings) |->
        <<embeddings[i][1],
          FaceRecognitionEngine_cosine_similarity(input_embedding, embeddings[i][2])>>]

\* A call of recognize_face returns, for the input_embedding (embedding1)
\* that generate_embedding returned and the pool known_embeddings.
recognize_face_embedding ==
    /\ result.run = FALSE
    /\ embedding1.array
    /\ LET r == recognize_face(TRUE, Similarity(embedding1.elems, known_embeddings),
                               threshold)
       IN  result' = [matched |-> r.matched, identity |-> r.identity,
                      confidence |-> r.confidence, run |-> TRUE]
    /\ UNCHANGED <<embedding_ok, known, known_embeddings, threshold>>
    /\ UNCHANGED <<attVars, vecVars, stuVars, usrVars>>

\* ------------------------------------------------------- the students

StuIdle(studs) ==
    /\ active = studs
    /\ face_embeddings = <<>>

\* SELECT s.id, s.name, s.roll_number, fe.embedding_data FROM students s
\* JOIN face_embeddings fe ON s.id = fe.student_id WHERE s.is_active = 1:
\* the student_id of the rows selected, in rowid order.
get_student_embeddings_Unfiltered(studs, act, fe) == fe

get_student_embeddings_PerStudent(studs, act, fe) ==
    SelectSeq([i \in 1..MaxStudent |-> i], LAMBDA s : s \in studs /\ s \in act)

get_student_embeddings(studs, act, fe) ==
    SelectSeq(fe, LAMBDA s : s \in studs /\ s \in act)

\* The orders in which cursor.fetchall() may return n rows of a query that
\* has no ORDER BY.
Orders(n) == {f \in [1..n -> 1..n] : \A i, j \in 1..n : f[i] = f[j] => i = j}

\* StudentService.recognize_student on the pool fetched.
recognize_student(emb_ok, pool, thr) ==
    IF Len(pool) = 0 THEN MatchResult(FALSE, None, 0)
    ELSE recognize_face(emb_ok, pool, thr)

\* student_info['student_id'], the argument of attendance_repo.mark_attendance
SelectedStudent_Other(info) == (info.student_id % MaxStudent) + 1

SelectedStudent(info) == info.student_id

\* known_embeddings as recognize_face sees it: the rows in the order fetched,
\* each with the similarity of its embedding to the probe.
PoolOf(rows, order, sims) == [i \in 1..Len(rows) |-> <<rows[order[i]], sims[i]>>]

\* AttendanceService.mark_attendance_by_recognition up to the call of
\* attendance_repo.mark_attendance: the pool is fetched and the probe is
\* recognized; when it is not, the call returns.
mark_attendance_by_recognition(p, emb_ok, order, sims) ==
    /\ impl = "repo"
    /\ pc[p] = "idle"
    /\ LET rows == get_student_embeddings(students, active, face_embeddings)
           r == recognize_student(emb_ok, PoolOf(rows, order, sims), threshold)
       IN  IF ~r.matched
           THEN Return(p, None, "AUTO", Ret(FALSE, "Face not recognized"))
           ELSE /\ pc' = [pc EXCEPT ![p] = "lookup"]
                /\ student_info' = [student_info EXCEPT ![p] = [student_id |-> r.identity]]
                /\ last' = NoCall
                /\ UNCHANGED <<student_id, action, call_today, op, existing_id>>
    /\ UNCHANGED <<impl, students, attendance, nextId, today>>
    /\ UNCHANGED <<recVars, vecVars, stuVars, usrVars>>

\* attendance_repo.mark_attendance(student_info['student_id'], ...) up to the
\* student check, as AttendanceRepository_lookup.
mark_attendance_by_recognition_lookup(p) ==
    /\ impl = "repo"
    /\ pc[p] = "lookup"
    /\ LET s == SelectedStudent(student_info[p])
       IN  IF s \notin students
           THEN Return(p, s, "AUTO", Ret(FALSE, "Student not found"))
           ELSE Goto(p, "select", s, "AUTO", today, "NONE", 0)
    /\ UNCHANGED <<impl, students, attendance, nextId, today>>
    /\ UNCHANGED <<recVars, vecVars, stuVars, usrVars>>

\* StudentRepository.delete_student(s): the row is looked up and marked
\* inactive.
delete_student(s) ==
    /\ IF s \notin students
       THEN /\ last' = [student_id |-> s, action |-> "DELETE",
                        success |-> FALSE, message |-> "Student not found"]
            /\ active' = active
       ELSE /\ last' = [student_id |-> s, action |-> "DELETE",
                        success |-> TRUE, message |-> "deleted successfully"]
            /\ active' = active \ {s}
    /\ UNCHANGED <<impl, students, attendance, nextId, today, pc, student_id,
                   action, call_today, op, existing_id, student_info, face_embeddings>>
    /\ UNCHANGED <<recVars, vecVars, usrVars>>

\* StudentRepository.add_student_with_photos with a new roll number and n
\* embeddings: the student gets the next id of the AUTOINCREMENT.
add_student_with_photos(n) ==
    /\ Cardinality(students) < MaxStudent
    /\ Len(face_embeddings) + n <= MaxRows
    /\ LET new_id == Cardinality(students) + 1
       IN  /\ students' = students \cup {new_id}
           /\ active' = active \cup {new_id}
           /\ face_embeddings' = face_embeddings \o [i \in 1..n |-> new_id]
           /\ last' = [student_id |-> new_id, action |-> "ADD",
                       success |-> TRUE, message |-> "added successfully"]
    /\ UNCHANGED <<impl, attendance, nextId, today, pc, student_id,
                   action, call_today, op, existing_id, student_info>>
    /\ UNCHANGED <<recVars, vecVars, usrVars>>

\* What an enrollment that fails returns.
AddFailed(msg) == [student_id |-> 0, action |-> "ADD", success |-> FALSE, message |-> msg]

\* The images of db.add_student_with_photos: None or an empty list is <<>>;
\* otherwise the list, each image as TRUE when image_to_embedding_bgr returns
\* an embedding and its INSERT succeeds.
ImageLists == UNION {[1..n -> BOOLEAN] : n \in 0..MaxRows}

\* embeddings_added once the loop over images has run.
RECURSIVE EmbeddingsAdded(_, _)
EmbeddingsAdded(images, i) ==
    IF i > Len(images) THEN 0
    ELSE (IF images[i] THEN 1 ELSE 0) + EmbeddingsAdded(images, i + 1)

\* The statement after conn.commit() in db.add_student_with_photos,
\* logger.info(f"... {embeddings_added} ..."): embeddings_added is bound only
\* inside "if images:", so with no images the f-string raises
\* UnboundLocalError, after the student row has been committed.
LogRaises(images) == Len(images) = 0

\* The UNIQUE column of students a new row would violate, if any.
Duplicates == {"none", "roll_number", "email"}

\* db.add_student_with_photos (legacy).  required: name, roll_number and email
\* are all given; exists: a student has the roll number or the email, so the
\* INSERT raises IntegrityError and the connection rolls back.
db_add_student_with_photos(required, exists, images) ==
    /\ impl = "db"
    /\ exists # "none" => students # {}
    /\ (required /\ exists = "none")
          => /\ Cardinality(students) < MaxStudent
             /\ Len(face_embeddings) + Len(images) <= MaxRows
    /\ LET student_id_new == Cardinality(students) + 1
           embeddings_added == EmbeddingsAdded(images, 1)
       IN  IF ~required THEN
               /\ last' = AddFailed("Name, roll number, and email are required")
               /\ UNCHANGED <<students, active, face_embeddings>>
           ELSE IF exists # "none" THEN
               /\ last' = AddFailed(IF exists = "roll_number"
                                    THEN "Roll number already exists"
                                    ELSE "Email already exists")
               /\ UNCHANGED <<students, active, face_embeddings>>
           ELSE IF Len(images) > 0 /\ embeddings_added = 0 THEN
               \* DELETE FROM students WHERE id = ?, commit
               /\ last' = AddFailed("No valid face detected in any photo")
               /\ UNCHANGED <<students, active, face_embeddings>>
           ELSE
               /\ students' = students \cup {student_id_new}
               /\ active' = active \cup {student_id_new}
               /\ face_embeddings' =
                     face_embeddings \o [i \in 1..embeddings_added |-> student_id_new]
               /\ last' = IF LogRaises(images)
                          THEN AddFailed("Error adding student")
                          ELSE [student_id |-> student_id_new, action |-> "ADD",
                                success |-> TRUE, message |-> "added successfully"]
    /\ UNCHANGED <<impl, attendance, nextId, today, pc, student_id,
                   action, call_today, op, existing_id, student_info>>
    /\ UNCHANGED <<recVars, vecVars, usrVars>>

\* StudentRepository.add_student_with_photos.  exists: the SELECT finds a
\* student with the roll number or the email; raised: a statement or the loop
\* over embeddings_data raises, and the exception leaves the with block
\* through rollback; otherwise the student and n embeddings are committed.
StudentRepository_add_student_with_photos(exists, raised, n) ==
    /\ impl = "repo"
    /\ exists => students # {}
    /\ IF exists \/ raised
       THEN /\ last' = AddFailed(IF exists THEN "already exists" ELSE "Error adding student")
            /\ UNCHANGED <<impl, students, attendance, nextId, today, pc, student_id,
                           action, call_today, op, existing_id, student_info>>
            /\ UNCHANGED <<recVars, vecVars, stuVars, usrVars>>
       ELSE add_student_with_photos(n)

\* ---------------------------------------------------------- the users

UserIds == 1..MaxUser

\* An email address is a number: user i registered with address i, and
\* MaxUser + i is the same address spelled with capital letters.
Emails == 1..MaxUser
Spellings == 1..(2 * MaxUser)

\* An address validate_email refuses.
Malformed == 0

\* sanitize_input(email).lower()
Lower(email) == IF email > MaxUser THEN email - MaxUser ELSE email

validate_email(email) == email # Malformed

Tokens == 1..MaxToken
NoToken == 0
Passwords == 1..MaxPassword

\* TOKEN_EXPIRY_HOURS, in ticks of the clock.
TOKEN_EXPIRY_HOURS == 1

\* hashlib.sha256((password + SALT).encode()).hexdigest(): distinct passwords
\* have distinct hashes, and no hash is a password.
hash_password(password) == MaxPassword + password

NoArgs == [user_id |-> 0, email |-> Malformed, token |-> NoToken]
NoReply == [op |-> "none", who |-> 0, success |-> FALSE, message |-> "none",
            token |-> NoToken]

Reply(o, w, ok, msg, tok) ==
    [op |-> o, who |-> w, success |-> ok, message |-> msg, token |-> tok]

UserRow(i, r) ==
    [id |-> i, email |-> i, role |-> r, password_hash |-> hash_password(1),
     reset_token |-> NoToken, reset_token_expires |-> NULL]

UsrIdle ==
    /\ users = {}
    /\ upc = [p \in Procs |-> "idle"]
    /\ uarg = [p \in Procs |-> NoArgs]
    /\ clock = 1
    /\ nextToken = 1
    /\ consumed = {}
    /\ reply = NoReply

UReturn(p, r) ==
    /\ upc' = [upc EXCEPT ![p] = "idle"]
    /\ uarg' = [uarg EXCEPT ![p] = NoArgs]
    /\ reply' = r

UGoto(p, next, args) ==
    /\ upc' = [upc EXCEPT ![p] = next]
    /\ uarg' = [uarg EXCEPT ![p] = args]
    /\ reply' = NoReply

\* SELECT COUNT(*) FROM users WHERE role = 'admin'
AdminCount(usrs) == Cardinality({u \in usrs : u.role = "admin"})

\* UserRepository.delete_user up to the DELETE: the user is fetched and, for
\* an admin, the admins are counted; both SELECTs run outside a transaction.
delete_user_check(p, user_id) ==
    /\ upc[p] = "idle"
    /\ LET user == {u \in users : u.id = user_id}
       IN  IF user = {} THEN
               UReturn(p, Reply("delete_user", user_id, FALSE, "User not found", NoToken))
           ELSE IF (\E u \in user : u.role = "admin") /\ AdminCount(users) <= 1 THEN
               UReturn(p, Reply("delete_user", user_id, FALSE,
                                "Cannot delete the last admin user", NoToken))
           ELSE UGoto(p, "delete", [NoArgs EXCEPT !.user_id = user_id])
    /\ UNCHANGED <<users, clock, nextToken, consumed>>
    /\ UNCHANGED <<attVars, recVars, vecVars, stuVars>>

\* UserRepository.delete_user: DELETE FROM users WHERE id = ?, commit, return.
delete_user_delete(p) ==
    /\ upc[p] = "delete"
    /\ users' = {u \in users : u.id # uarg[p].user_id}
    /\ UReturn(p, Reply("delete_user", uarg[p].user_id, TRUE, "deleted successfully", NoToken))
    /\ UNCHANGED <<clock, nextToken, consumed>>
    /\ UNCHANGED <<attVars, recVars, vecVars, stuVars>>

\* UserRepository.delete_all_users_except_admin.
delete_all_users_except_admin ==
    /\ LET count == Cardinality({u \in users : u.role # "admin"})
       IN  IF count = 0 THEN
               /\ reply' = Reply("delete_all", 0, FALSE, "No non-admin users to delete", NoToken)
               /\ users' = users
           ELSE
               /\ users' = {u \in users : ~(u.role # "admin")}
               /\ reply' = Reply("delete_all", count, TRUE, "Successfully deleted", NoToken)
    /\ UNCHANGED <<upc, uarg, clock, nextToken, consumed>>
    /\ UNCHANGED <<attVars, recVars, vecVars, stuVars>>

\* user_repo.get_user_by_email(email)
get_user_by_email(usrs, email) == {u \in usrs : u.email = email}

\* What email_service.send_password_reset_email does: it returns
\* (email_sent, email_message), or the import or the call raises.
Mails == {"Password reset email sent", "Failed to send email", "raised"}

\* What initiate_password_reset(email) returns when generate_secure_token
\* returns reset_token and the email service does mail: (success, message,
\* token).
initiate_password_reset_result(usrs, email, reset_token, mail) ==
    LET e == Lower(email)
    IN  IF ~validate_email(e) THEN
            <<FALSE, "Invalid email format", NoToken>>
        ELSE IF get_user_by_email(usrs, e) = {} THEN
            <<TRUE, "If the email exists, a reset link will be sent", NoToken>>
        ELSE IF mail = "raised" THEN
            <<TRUE, "Reset token generated", reset_token>>
        ELSE <<TRUE, mail, reset_token>>

\* UPDATE users SET reset_token = ?, reset_token_expires = ? WHERE email = ?
store_reset_token(usrs, email, token, expires) ==
    {IF u.email = email
     THEN [u EXCEPT !.reset_token = token, !.reset_token_expires = expires]
     ELSE u : u \in usrs}

\* AuthenticationService.initiate_password_reset.  No user is created or
\* deleted while it runs, so get_user_by_email and store_reset_token see the
\* same users.
initiate_password_reset(email, mail) ==
    /\ nextToken <= MaxToken
    /\ LET e == Lower(email)
           r == initiate_password_reset_result(users, email, nextToken, mail)
           found == validate_email(e) /\ get_user_by_email(users, e) # {}
       IN  /\ users' = IF found
                       THEN store_reset_token(users, e, nextToken,
                                              clock + TOKEN_EXPIRY_HOURS)
                       ELSE users
           /\ nextToken' = IF found THEN nextToken + 1 ELSE nextToken
           /\ reply' = Reply("initiate", e, r[1], r[2], r[3])
    /\ UNCHANGED <<upc, uarg, clock, consumed>>
    /\ UNCHANGED <<attVars, recVars, vecVars, stuVars>>

\* stored_token == token and expires and expires > datetime.now()
TokenValid(stored_token, expires, token, now) ==
    stored_token = token /\ expires # NULL /\ expires > now

\* UserRepository.verify_reset_token(email, token)
verify_reset_token(usrs, email, token, now) ==
    \E u \in usrs :
        /\ u.email = email
        /\ TokenValid(u.reset_token, u.reset_token_expires, token, now)

\* AuthenticationService.reset_password up to update_password: the email and
\* the password are validated and the token is verified.
reset_password_verify(p, email, token, password_valid) ==
    /\ upc[p] = "idle"
    /\ LET e == Lower(email)
       IN  IF ~validate_email(e) THEN
               UReturn(p, Reply("reset", e, FALSE, "Invalid email format", token))
           ELSE IF ~password_valid THEN
               UReturn(p, Reply("reset", e, FALSE, "password_msg", token))
           ELSE IF ~verify_reset_token(users, e, token, clock) THEN
               UReturn(p, Reply("reset", e, FALSE, "Invalid or expired reset token", token))
           ELSE UGoto(p, "update", [NoArgs EXCEPT !.email = e, !.token = token])
    /\ UNCHANGED <<users, clock, nextToken, consumed>>
    /\ UNCHANGED <<attVars, recVars, vecVars, stuVars>>

\* UPDATE users SET password_hash = ?, reset_token = NULL,
\* reset_token_expires = NULL WHERE email = ?
update_password(usrs, email, new_password_hash) ==
    {IF u.email = email
     THEN [u EXCEPT !.password_hash = new_password_hash,
                    !.reset_token = NoToken, !.reset_token_expires = NULL]
     ELSE u : u \in usrs}

\* AuthenticationService.reset_password: hash_password(new_password),
\* update_password in a connection of its own, and the return.
reset_password_update(p, new_password) ==
    /\ upc[p] = "update"
    /\ LET e == uarg[p].email
           success == get_user_by_email(users, e) # {}
       IN  /\ users' = update_password(users, e, hash_password(new_password))
           /\ consumed' = IF success THEN consumed \cup {<<e, uarg[p].token>>}
                          ELSE consumed
           /\ UReturn(p, IF success
                         THEN Reply("reset", e, TRUE, "Password reset successful",
                                    uarg[p].token)
                         ELSE Reply("reset", e, FALSE, "Failed to update password",
                                    uarg[p].token))
    /\ UNCHANGED <<clock, nextToken>>
    /\ UNCHANGED <<attVars, recVars, vecVars, stuVars>>

\* datetime.now() advances.
Tick ==
    /\ clock < MaxClock
    /\ clock' = clock + 1
    /\ reply' = NoReply
    /\ UNCHANGED <<users, upc, uarg, nextToken, consumed>>
    /\ UNCHANGED <<attVars, recVars, vecVars, stuVars>>

\* init_database has run: the tables exist and attendance is empty.  studs are
\* the students enrolled since.
InitWith(studs) ==
    /\ impl \in {"db", "repo"}
    /\ students = studs
    /\ attendance = {}
    /\ nextId = 1
    /\ today = 1
    /\ pc = [p \in Procs |-> "idle"]
    /\ student_id = [p \in Procs |-> 0]
    /\ action = [p \in Procs |-> "AUTO"]
    /\ call_today = [p \in Procs |-> 0]
    /\ op = [p \in Procs |-> "NONE"]
    /\ existing_id = [p \in Procs |-> 0]
    /\ student_info = [p \in Procs |-> NoInfo]
    /\ last = NoCall
    /\ UsrIdle
    /\ RecIdle
    /\ VecIdle
    /\ StuIdle(studs)

\* Every id but the last is enrolled; the last is the id of no student.
Init == InitWith(StudentIds \ {MaxStudent})

\* Every id is enrolled.
InitAll == InitWith(StudentIds)

Step(p) ==
    \/ \E s \in StudentIds, a \in ActionNames : mark_attendance_select(p, s, a)
    \/ \E current_time \in Times : mark_attendance_write(p, current_time)
    \/ \E s \in StudentIds : AttendanceRepository_lookup(p, s)
    \/ AttendanceRepository_select(p)
    \/ \E now \in Times : AttendanceRepository_write(p, now)

Next ==
    \/ \E p \in Procs : Step(p)
    \/ NextDay

\* Concurrent callers over several dates; one id is not enrolled.
Spec == Init /\ [][Next]_vars

DayNext == \E p \in Procs : Step(p)

\* Concurrent callers within one date; every id is enrolled.
DaySpec == InitAll /\ [][DayNext]_vars

\* One call at a time: a step of caller p while every other caller is idle.
SeqNext ==
    \/ \E p \in Procs : (\A q \in Procs \ {p} : pc[q] = "idle") /\ Step(p)
    \/ NextDay

\* Successive calls over several dates; one id is not enrolled.
SeqSpec == Init /\ [][SeqNext]_vars

\* The engine with a probe, a pool and a threshold, before recognize_face runs.
RecInit ==
    /\ impl = "repo"
    /\ students = StudentIds
    /\ attendance = {}
    /\ nextId = 1
    /\ today = 1
    /\ pc = [p \in Procs |-> "idle"]
    /\ student_id = [p \in Procs |-> 0]
    /\ action = [p \in Procs |-> "AUTO"]
    /\ call_today = [p \in Procs |-> 0]
    /\ op = [p \in Procs |-> "NONE"]
    /\ existing_id = [p \in Procs |-> 0]
    /\ student_info = [p \in Procs |-> NoInfo]
    /\ last = NoCall
    /\ UsrIdle
    /\ embedding_ok \in BOOLEAN
    /\ known \in Pools
    /\ known_embeddings = <<>>
    /\ threshold \in Thresholds
    /\ result = [matched |-> FALSE, identity |-> None, confidence |-> 0, run |-> FALSE]
    /\ VecIdle
    /\ StuIdle(StudentIds)

RecNext == recognize_face_call

\* recognize_face applied to every probe, pool and threshold within the bounds.
RecSpec == RecInit /\ [][RecNext]_vars

\* The service over the repositories: students 1..MaxStudent - 1 are enrolled
\* with some embeddings, and the threshold is configured.
SvcInit ==
    /\ impl = "repo"
    /\ students = StudentIds \ {MaxStudent}
    /\ active = students
    /\ face_embeddings \in UNION {[1..n -> StudentIds \ {MaxStudent}] : n \in 0..MaxRows}
    /\ attendance = {}
    /\ nextId = 1
    /\ today = 1
    /\ pc = [p \in Procs |-> "idle"]
    /\ student_id = [p \in Procs |-> 0]
    /\ action = [p \in Procs |-> "AUTO"]
    /\ call_today = [p \in Procs |-> 0]
    /\ op = [p \in Procs |-> "NONE"]
    /\ existing_id = [p \in Procs |-> 0]
    /\ student_info = [p \in Procs |-> NoInfo]
    /\ last = NoCall
    /\ UsrIdle
    /\ embedding_ok = TRUE
    /\ known = <<>>
    /\ known_embeddings = <<>>
    /\ threshold \in Thresholds
    /\ result = [matched |-> FALSE, identity |-> None, confidence |-> 0, run |-> FALSE]
    /\ VecIdle

SvcStep(p) ==
    \/ \E emb_ok \in BOOLEAN :
         \E order \in Orders(Len(get_student_embeddings(students, active, face_embeddings))) :
           \E sims \in [1..Len(get_student_embeddings(students, active, face_embeddings))
                           -> Similarities] :
               mark_attendance_by_recognition(p, emb_ok, order, sims)
    \/ mark_attendance_by_recognition_lookup(p)
    \/ AttendanceRepository_select(p)
    \/ \E now \in Times : AttendanceRepository_write(p, now)

\* One recognition at a time: a step of caller p while every other caller is
\* idle; the administration of the students runs between any two steps.
SvcNext ==
    \/ \E p \in Procs : (\A q \in Procs \ {p} : pc[q] = "idle") /\ SvcStep(p)
    \/ \E s \in StudentIds : delete_student(s)
    \/ \E n \in 0..MaxRows : add_student_with_photos(n)

\* Successive recognitions within one date, with students deleted and enrolled
\* at any point.
SvcSpec == SvcInit /\ [][SvcNext]_vars

DelStep(p) ==
    \/ SvcStep(p)
    \/ \E s \in StudentIds : AttendanceRepository_lookup(p, s)

\* One attendance call at a time, by recognition or manual entry
\* (mark_attendance_manual); students are deleted between two calls or between
\* the recognition of a call and its attendance_repo.mark_attendance, never
\* inside the latter.
DelNext ==
    \/ \E p \in Procs : (\A q \in Procs \ {p} : pc[q] = "idle") /\ DelStep(p)
    \/ /\ \A q \in Procs : pc[q] \in {"idle", "lookup"}
       /\ \E s \in StudentIds : delete_student(s)

DelSpec == SvcInit /\ [][DelNext]_vars

\* A database with the students enrolled so far and their embeddings, under
\* the legacy db.py or the repositories.
EnrollInit ==
    /\ impl \in {"db", "repo"}
    /\ students \in {1..k : k \in 0..(MaxStudent - 1)}
    /\ active = students
    /\ face_embeddings \in UNION {[1..n -> students] : n \in 0..(MaxRows - 1)}
    /\ attendance = {}
    /\ nextId = 1
    /\ today = 1
    /\ pc = [p \in Procs |-> "idle"]
    /\ student_id = [p \in Procs |-> 0]
    /\ action = [p \in Procs |-> "AUTO"]
    /\ call_today = [p \in Procs |-> 0]
    /\ op = [p \in Procs |-> "NONE"]
    /\ existing_id = [p \in Procs |-> 0]
    /\ student_info = [p \in Procs |-> NoInfo]
    /\ last = NoCall
    /\ UsrIdle
    /\ RecIdle
    /\ VecIdle

\* Enrollments, one at a time, and deletions.
EnrollNext ==
    \/ \E required \in BOOLEAN, exists \in Duplicates, images \in ImageLists :
           db_add_student_with_photos(required, exists, images)
    \/ \E exists, raised \in BOOLEAN : \E n \in 0..MaxRows :
           StudentRepository_add_student_with_photos(exists, raised, n)
    \/ \E s \in StudentIds : impl = "repo" /\ delete_student(s)

EnrollSpec == EnrollInit /\ [][EnrollNext]_vars

\* The arguments of cosine_similarity and resize_embedding_to_512, before the
\* calls: every pair of vectors within the bounds, None as the first, every
\* EMBEDDING_SIZE, and both implementations of cosine_similarity.
VecInit ==
    /\ impl = "repo"
    /\ students = StudentIds
    /\ attendance = {}
    /\ nextId = 1
    /\ today = 1
    /\ pc = [p \in Procs |-> "idle"]
    /\ student_id = [p \in Procs |-> 0]
    /\ action = [p \in Procs |-> "AUTO"]
    /\ call_today = [p \in Procs |-> 0]
    /\ op = [p \in Procs |-> "NONE"]
    /\ existing_id = [p \in Procs |-> 0]
    /\ student_info = [p \in Procs |-> NoInfo]
    /\ last = NoCall
    /\ UsrIdle
    /\ RecIdle
    /\ StuIdle(StudentIds)
    /\ embedding1 \in {[array |-> TRUE, elems |-> v] : v \in Vectors}
                         \cup {[array |-> FALSE, elems |-> <<>>]}
    /\ embedding2 \in Vectors
    /\ embedding_size \in 1..MaxLen
    /\ scorer \in {"engine", "legacy"}
    /\ cosine = [value |-> 0, run |-> FALSE]
    /\ resized = [value |-> <<>>, run |-> FALSE]

VecNext ==
    \/ cosine_similarity_call
    \/ resize_embedding_to_512_call

VecSpec == VecInit /\ [][VecNext]_vars

\* The engine with the embedding of a probe, a pool of stored embeddings and a
\* threshold, before recognize_face compares them.
ProbeInit ==
    /\ impl = "repo"
    /\ students = StudentIds
    /\ attendance = {}
    /\ nextId = 1
    /\ today = 1
    /\ pc = [p \in Procs |-> "idle"]
    /\ student_id = [p \in Procs |-> 0]
    /\ action = [p \in Procs |-> "AUTO"]
    /\ call_today = [p \in Procs |-> 0]
    /\ op = [p \in Procs |-> "NONE"]
    /\ existing_id = [p \in Procs |-> 0]
    /\ student_info = [p \in Procs |-> NoInfo]
    /\ last = NoCall
    /\ UsrIdle
    /\ embedding_ok = TRUE
    /\ known = <<>>
    /\ known_embeddings \in EmbeddingPools
    /\ threshold \in Thresholds
    /\ result = [matched |-> FALSE, identity |-> None, confidence |-> 0, run |-> FALSE]
    /\ StuIdle(StudentIds)
    /\ embedding1 \in {[array |-> TRUE, elems |-> v] : v \in Embeddings}
    /\ embedding2 = <<>>
    /\ embedding_size = DefaultEmbeddingSize
    /\ scorer = "engine"
    /\ cosine = [value |-> 0, run |-> FALSE]
    /\ resized = [value |-> <<>>, run |-> FALSE]

ProbeNext == recognize_face_embedding

\* recognize_face applied to every probe embedding, pool of embeddings and
\* threshold within the bounds.
ProbeSpec == ProbeInit /\ [][ProbeNext]_vars

\* The other subsystems at rest.
Rest ==
    /\ impl = "repo"
    /\ students = {}
    /\ attendance = {}
    /\ nextId = 1
    /\ today = 1
    /\ pc = [p \in Procs |-> "idle"]
    /\ student_id = [p \in Procs |-> 0]
    /\ action = [p \in Procs |-> "AUTO"]
    /\ call_today = [p \in Procs |-> 0]
    /\ op = [p \in Procs |-> "NONE"]
    /\ existing_id = [p \in Procs |-> 0]
    /\ student_info = [p \in Procs |-> NoInfo]
    /\ last = NoCall
    /\ RecIdle
    /\ VecIdle
    /\ StuIdle({})

\* Users 1..MaxUser with any roles, at least one of them an admin.
AdminInit ==
    /\ Rest
    /\ \E role \in [UserIds -> {"admin", "user"}] :
          /\ \E i \in UserIds : role[i] = "admin"
          /\ users = {UserRow(i, role[i]) : i \in UserIds}
    /\ upc = [p \in Procs |-> "idle"]
    /\ uarg = [p \in Procs |-> NoArgs]
    /\ clock = 1
    /\ nextToken = 1
    /\ consumed = {}
    /\ reply = NoReply

AdminNext ==
    \/ \E p \in Procs, user_id \in UserIds : delete_user_check(p, user_id)
    \/ \E p \in Procs : delete_user_delete(p)
    \/ delete_all_users_except_admin

\* Concurrent deletions of users.
AdminSpec == AdminInit /\ [][AdminNext]_vars

\* Users 1..MaxUser - 1 are registered, the first as admin; address MaxUser
\* is registered to nobody.
ResetInit ==
    /\ Rest
    /\ users = {UserRow(i, IF i = 1 THEN "admin" ELSE "user") : i \in 1..(MaxUser - 1)}
    /\ upc = [p \in Procs |-> "idle"]
    /\ uarg = [p \in Procs |-> NoArgs]
    /\ clock = 1
    /\ nextToken = 1
    /\ consumed = {}
    /\ reply = NoReply

ResetNext ==
    \/ \E email \in Spellings \cup {Malformed}, mail \in Mails :
           initiate_password_reset(email, mail)
    \/ \E p \in Procs, email \in Spellings \cup {Malformed}, token \in Tokens,
          password_valid \in BOOLEAN :
           reset_password_verify(p, email, token, password_valid)
    \/ \E p \in Procs, new_password \in Passwords : reset_password_update(p, new_password)
    \/ Tick

\* Concurrent password resets while the clock advances.
ResetSpec == ResetInit /\ [][ResetNext]_vars

\* ======================================================== properties

\* The per (student, date) states of section 4.4.
CompleteIn(att, s, d) ==
    \E r \in Matching(att, s, d) : r.time_in # NULL /\ r.time_out # NULL
NoRecord(s, d) == Matching(attendance, s, d) = {}
HasTimeIn(s, d) == \E r \in Matching(attendance, s, d) : r.time_in # NULL
InOnly(s, d) ==
    \E r \in Matching(attendance, s, d) : r.time_in # NULL /\ r.time_out = NULL
Complete(s, d) == CompleteIn(attendance, s, d)

\* This step is a whole call that fetched and returned without writing
\* (db.mark_attendance) or that found no student (AttendanceRepository).
ImmediateReturn == last' # NoCall /\ pc' = pc

\* This step is the return of the call caller p has in progress.
Returns(p) == pc[p] # "idle" /\ pc'[p] = "idle"

AlreadyMessages == {"Attendance already complete for today", "Attendance already marked"}

\* What a call with arguments (s, AUTO) on date d, returning in this step from
\* the table state it started in, must do.
Lifecycle(s, d) ==
    CASE NoRecord(s, d) ->
            /\ last'.success
            /\ \E r \in attendance' \ attendance :
                   /\ r.student_id = s /\ r.date = d
                   /\ r.time_in # NULL /\ r.time_out = NULL
                   /\ attendance' = attendance \cup {r}
      [] InOnly(s, d) ->
            /\ last'.success
            /\ CompleteIn(attendance', s, d)
            /\ \A r \in attendance : \E q \in attendance' :
                   /\ q.id = r.id /\ q.time_in = r.time_in
                   /\ (r.student_id # s \/ r.date # d) => q = r
      [] Complete(s, d) ->
            /\ ~last'.success
            /\ last'.message \in AlreadyMessages
            /\ attendance' = attendance
      [] OTHER -> TRUE

\* C1: with one call at a time, an automatic-mode call for an enrolled student
\* creates the record with time_in alone when the date has no record, sets
\* time_out when the record has time_in alone, and is refused as already
\* complete / already marked, changing nothing, on every later call.
C1_FullDayLifecycle ==
    [][ /\ \A p \in Procs :
              (Returns(p) /\ action[p] = "AUTO" /\ student_id[p] \in students)
                  => Lifecycle(student_id[p], call_today[p])
        /\ (ImmediateReturn /\ last'.action = "AUTO" /\ last'.student_id \in students)
              => Lifecycle(last'.student_id, today)
      ]_vars

\* A third automatic call of the day has been refused on a complete record.
C1_Witness ==
    /\ last.action = "AUTO"
    /\ ~last.success
    /\ last.message \in AlreadyMessages
    /\ Complete(last.student_id, today)

\* C2: the attendance table never holds two records for the same student and
\* date, whatever calls have run and however they interleaved.
C2_OneRecordPerStudentDate ==
    \A s \in StudentIds, d \in Dates : Cardinality(Matching(attendance, s, d)) <= 1

\* Two calls both found no record; the second INSERT was refused.
C2_Witness ==
    /\ last.message = "Error marking attendance"
    /\ last.student_id \in students
    /\ \E d \in Dates : Cardinality(Matching(attendance, last.student_id, d)) = 1

\* C3: every attendance record with time_out set has time_in set.
C3_TimeOutOnlyAfterTimeIn ==
    \A r \in attendance : r.time_out # NULL => r.time_in # NULL

C3_Witness == \E r \in attendance : r.time_out # NULL

\* C4: a call that fetches a record with both time_in and time_out set, with
\* any action, returns success = false at once and changes nothing, and a
\* complete record stays complete.
C4_CompleteIsTerminal ==
    [][ /\ \A p \in Procs :
              /\ (pc[p] = "idle" /\ pc'[p] = "write")
                    => ~CompleteIn(attendance, student_id'[p], call_today'[p])
              /\ (pc[p] = "select" /\ pc'[p] # "select"
                     /\ Complete(student_id[p], call_today[p]))
                    => (pc'[p] = "idle" /\ ~last'.success /\ attendance' = attendance)
        /\ (ImmediateReturn /\ CompleteIn(attendance, last'.student_id, today))
              => (~last'.success /\ attendance' = attendance)
        /\ \A s \in StudentIds, d \in Dates : Complete(s, d) => CompleteIn(attendance', s, d)
      ]_vars

\* An explicit OUT has been refused on a complete record.
C4_Witness ==
    /\ last.action = "OUT"
    /\ last.message = "Exit already marked today"
    /\ Complete(last.student_id, today)

\* C5: db.mark_attendance(id, "OUT") returning while today has no time_in for
\* the student (no record at all included) returns success = false with
\* 'Cannot mark exit before entry' and creates or changes no record.
C5_ExitBeforeEntryRefused ==
    [][ /\ \A p \in Procs :
              (impl = "db" /\ Returns(p) /\ action[p] = "OUT"
                 /\ ~HasTimeIn(student_id[p], call_today[p]))
                  => /\ last' = [student_id |-> student_id[p], action |-> "OUT",
                                 success |-> FALSE,
                                 message |-> "Cannot mark exit before entry"]
                     /\ attendance' = attendance
        /\ (impl = "db" /\ ImmediateReturn /\ last'.action = "OUT"
               /\ ~HasTimeIn(last'.student_id, today))
              => /\ last'.message = "Cannot mark exit before entry"
                 /\ ~last'.success
                 /\ attendance' = attendance
      ]_vars

\* C6: db.mark_attendance(id, "IN") fetching a record of today that has
\* time_in set returns success = false with 'Entry already marked today' at
\* once and leaves the table as it was.
C6_EntryAlreadyMarked ==
    [][ /\ \A p \in Procs :
              (impl = "db" /\ pc[p] = "idle" /\ pc'[p] = "write" /\ action'[p] = "IN")
                  => ~HasTimeIn(student_id'[p], call_today'[p])
        /\ (impl = "db" /\ ImmediateReturn /\ last'.action = "IN"
               /\ HasTimeIn(last'.student_id, today))
              => /\ last'.message = "Entry already marked today"
                 /\ ~last'.success
                 /\ attendance' = attendance
      ]_vars

C6_Witness ==
    /\ last.action = "IN"
    /\ last.message = "Entry already marked today"
    /\ ~last.success
    /\ HasTimeIn(last.student_id, today)

\* C7: a call whose INSERT meets a record another call has just created for
\* the same student and date falls back to setting time_out and returns
\* success, not an error.
C7_InsertCollisionFallsBack ==
    [][ \A p \in Procs :
            (Returns(p) /\ op[p] \in {"INSERT", "REPO_INSERT"}
               /\ ~NoRecord(student_id[p], call_today[p]))
                => (last'.success /\ CompleteIn(attendance', student_id[p], call_today[p]))
      ]_vars

\* C8: per (student, date) the record is created once and changed once more:
\* a call returns success only by creating the record or by setting a
\* time_out that was absent (so at most two calls succeed), and a time_out
\* once set is never overwritten, under any interleaving.
C8_CreatedOnceMutatedOnce ==
    [][ /\ \A p \in Procs :
              (Returns(p) /\ last'.success)
                  => \/ NoRecord(student_id[p], call_today[p])
                     \/ InOnly(student_id[p], call_today[p])
        /\ \A r \in attendance :
              r.time_out # NULL
                  => \E q \in attendance' : q.id = r.id /\ q.time_out = r.time_out
      ]_vars

\* The greatest similarity in a non-empty pool.
PoolMax(pool) ==
    CHOOSE m \in Similarities :
        /\ \E i \in 1..Len(pool) : pool[i][2] = m
        /\ \A i \in 1..Len(pool) : pool[i][2] <= m

\* C9: recognize_face accepts only a best similarity strictly above the
\* threshold: equal to the threshold gives matched = false, above it gives
\* matched = true.
C9_StrictThreshold ==
    (result.run /\ embedding_ok /\ Len(known) > 0)
        => /\ PoolMax(known) = threshold => ~result.matched
           /\ PoolMax(known) > threshold => result.matched

\* C10: when some candidate's similarity exceeds the threshold (a threshold
\* between 0.0 and 1.0), recognize_face returns matched = true with a
\* candidate whose similarity is the greatest of the whole pool, and reports
\* that similarity as the confidence.
C10_BestOfPool ==
    (result.run /\ embedding_ok /\ \E i \in 1..Len(known) : known[i][2] > threshold)
        => /\ result.matched
           /\ result.confidence = PoolMax(known)
           /\ \E i \in 1..Len(known) :
                  known[i][1] = result.identity /\ known[i][2] = PoolMax(known)

\* Candidates at 0.3, 0.9, 0.7 with threshold 0.5, in the order of the scale:
\* the second candidate is returned.
C10_Witness ==
    /\ result.run
    /\ embedding_ok
    /\ known = <<(<<1, 1>>), (<<2, 4>>), (<<1, 3>>)>>
    /\ threshold = 2
    /\ result.matched /\ result.identity = 2 /\ result.confidence = 4

\* C11: when the pool is empty or no candidate's similarity exceeds the
\* threshold, recognize_face returns matched = false, identity none and, as
\* confidence, the best similarity of the pool (0.0 for the empty pool).
C11_NoMatchResult ==
    (result.run /\ embedding_ok /\ \A i \in 1..Len(known) : known[i][2] <= threshold)
        => /\ ~result.matched
           /\ result.identity = None
           /\ result.confidence = IF Len(known) = 0 THEN 0 ELSE PoolMax(known)

\* The first position of the pool that holds the greatest similarity.
FirstMax(pool) ==
    CHOOSE i \in 1..Len(pool) :
        /\ pool[i][2] = PoolMax(pool)
        /\ \A j \in 1..(i - 1) : pool[j][2] < PoolMax(pool)

\* C12: when several candidates share the greatest similarity, recognize_face
\* returns the one that comes first in the order of the pool.
C12_FirstSeenWins ==
    (result.run /\ result.matched)
        => result.identity = known[FirstMax(known)][1]

\* Two different students tie at the greatest similarity; the earlier one is
\* returned.
C12_Witness ==
    /\ result.run
    /\ result.matched
    /\ \E i, j \in 1..Len(known) :
           /\ i < j
           /\ known[i][2] = PoolMax(known) /\ known[j][2] = PoolMax(known)
           /\ known[i][1] # known[j][1]
           /\ result.identity = known[i][1]

\* C13: cosine_similarity, in the engine and in face_utils, returns a value
\* between 0.0 and 1.0 for every two vectors of one length.
C13_CosineRange ==
    (cosine.run /\ Len(embedding1.elems) = Len(embedding2))
        => cosine.value \in 0..SimScale

\* Every component is zero: the vector's norm is exactly 0.
IsZeroVector(v) == \A i \in 1..Len(v) : v[i] = 0

\* C14: cosine_similarity returns exactly 0.0 (an ordinary value, no nan of a
\* division by zero) when either vector has norm zero, whatever the other.
C14_ZeroNormIsZero ==
    (cosine.run /\ (IsZeroVector(embedding1.elems) \/ IsZeroVector(embedding2)))
        => cosine.value = 0

\* A zero vector has been compared with a non-zero vector of its length.
C14_Witness ==
    /\ cosine.run
    /\ cosine.value = 0
    /\ Len(embedding2) > 0
    /\ IsZeroVector(embedding2)
    /\ Len(embedding1.elems) = Len(embedding2)
    /\ ~IsZeroVector(embedding1.elems)

\* C15: resize_embedding_to_512 returns exactly EMBEDDING_SIZE elements for
\* every input, None included, and every configured EMBEDDING_SIZE.
C15_ResizeLength ==
    resized.run => Len(resized.value) = embedding_size

\* C16: of a vector v of length L resize_embedding_to_512 returns r of length
\* D = EMBEDDING_SIZE with r[i] = v[i] up to min(L, D) and r[i] = 0 after it;
\* v of length D is returned unchanged, and resizing r returns r.
C16_ResizePrefixAndPad ==
    (resized.run /\ embedding1.array)
        => LET v == embedding1.elems
               r == resized.value
               D == embedding_size
               m == IF Len(v) < D THEN Len(v) ELSE D
           IN  /\ Len(r) = D
               /\ \A i \in 1..m : r[i] = v[i]
               /\ \A i \in (m + 1)..D : r[i] = 0
               /\ Len(v) = D => r = v
               /\ resize_embedding_to_512([array |-> TRUE, elems |-> r], D) = r

\* A vector shorter than EMBEDDING_SIZE, ending in a non-zero component, has
\* been padded.
C16_Witness ==
    /\ resized.run
    /\ embedding1.array
    /\ Len(embedding1.elems) > 0
    /\ Len(embedding1.elems) < embedding_size
    /\ embedding1.elems[Len(embedding1.elems)] # 0
    /\ resized.value[embedding_size] = 0

\* The pool get_student_embeddings returns in this state.
CurrentPool == get_student_embeddings(students, active, face_embeddings)

\* Caller p's recognition returns a match in this step.
Recognized(p) == pc[p] = "idle" /\ pc'[p] = "lookup"

\* C17: once delete_student(id) has succeeded, no later pool of
\* get_student_embeddings has an entry for id (the student is never active
\* again), and no recognition that fetches its pool after the deletion
\* returns id as the match.
C17_DeletedNeverMatched ==
    [][ /\ \A s \in students \ active :
              /\ s \notin active'
              /\ \A i \in 1..Len(CurrentPool') : CurrentPool'[i] # s
        /\ (last'.action = "DELETE" /\ last'.success)
              => \A i \in 1..Len(CurrentPool') : CurrentPool'[i] # last'.student_id
        /\ \A p \in Procs : Recognized(p) => student_info'[p].student_id \in active
      ]_vars

\* A recognition has just returned no match on an empty pool although
\* embeddings are stored: their students were deleted before it fetched.
C17_Witness ==
    /\ last.message = "Face not recognized"
    /\ CurrentPool = <<>>
    /\ \E i \in 1..Len(face_embeddings) : face_embeddings[i] \in students \ active

\* The students that have a row in face_embeddings.
WithEmbedding == {face_embeddings[i] : i \in 1..Len(face_embeddings)}

\* C18: a student with no stored embedding is never the match a recognition
\* returns, whatever the probe, the threshold and the other students.
C18_NoEmbeddingNeverMatched ==
    [][ \A p \in Procs :
            Recognized(p) => student_info'[p].student_id \in WithEmbedding ]_vars

\* A recognition has returned a match while an active student has no
\* embedding.
C18_Witness ==
    /\ \E p \in Procs : pc[p] = "lookup"
    /\ \E s \in active : s \notin WithEmbedding

\* C19: mark_attendance_by_recognition calls the attendance repository for
\* exactly the student the recognition returned; the call changes records of
\* that student alone and, when the student has no record of the date,
\* creates the record with time_in alone; a call whose recognition returns no
\* match makes no attendance call; and no step but the attendance call's
\* write changes the table.
C19_MarksRecognizedIdentity ==
    [][ /\ \A p \in Procs :
              /\ (pc[p] = "idle" /\ pc'[p] = "idle" /\ last'.message = "Face not recognized")
                    => (~last'.success /\ attendance' = attendance)
              /\ (pc[p] = "lookup" /\ pc'[p] = "select")
                    => student_id'[p] = student_info[p].student_id
              /\ (pc[p] = "lookup" /\ pc'[p] = "idle")
                    => last'.student_id = student_info[p].student_id
              /\ (pc[p] = "select" /\ pc'[p] = "write")
                    => student_id'[p] = student_info[p].student_id
              /\ (pc[p] = "write" /\ pc'[p] = "idle")
                    => LET s == student_info[p].student_id
                           d == call_today[p]
                       IN  /\ \A r \in attendance : r.student_id # s => r \in attendance'
                           /\ \A r \in attendance' : r.student_id # s => r \in attendance
                           /\ NoRecord(s, d)
                                 => /\ last'.success
                                    /\ last'.student_id = s
                                    /\ \E r \in attendance' \ attendance :
                                           /\ r.student_id = s /\ r.date = d
                                           /\ r.time_in # NULL /\ r.time_out = NULL
                                           /\ attendance' = attendance \cup {r}
        /\ (\A p \in Procs : ~(pc[p] = "write" /\ pc'[p] = "idle"))
              => attendance' = attendance
      ]_vars

\* A recognized student's first record of the day has just been created
\* while another student has a record.
C19_Witness ==
    /\ last.message = "Attendance marked"
    /\ InOnly(last.student_id, today)
    /\ \E r \in attendance : r.student_id # last.student_id

\* The reasons a refused call returns.
Reasons ==
    {"Attendance already complete for today", "Attendance already marked",
     "Entry already marked today", "Cannot mark exit before entry",
     "Exit already marked today", "Student not found", "Error marking attendance"}

\* A call with arguments (s, a) on date d meets an expected negative outcome:
\* unknown student, record already complete, exit before entry, entry
\* already marked.
NegativeOutcome(s, a, d) ==
    \/ s \notin students
    \/ Complete(s, d)
    \/ impl = "db" /\ a = "OUT" /\ ~HasTimeIn(s, d)
    \/ impl = "db" /\ a = "IN" /\ HasTimeIn(s, d)

\* C20: a mark_attendance call that meets an expected negative outcome
\* (unknown student, already complete, exit before entry, entry already
\* marked) returns an ordinary value with success = false and a reason.
C20_NegativeOutcomesAreReturned ==
    [][ /\ \A p \in Procs :
              (Returns(p) /\ NegativeOutcome(student_id[p], action[p], call_today[p]))
                  => (~last'.success /\ last'.message \in Reasons)
        /\ (ImmediateReturn /\ NegativeOutcome(last'.student_id, last'.action, today))
              => (~last'.success /\ last'.message \in Reasons)
      ]_vars

\* C21: a mark_attendance call for a student_id that is the id of no student
\* returns success = false with the reason 'Student not found', in both
\* implementations, and creates no attendance record.
C21_UnknownStudentReported ==
    [][ /\ \A p \in Procs :
              (Returns(p) /\ student_id[p] \notin students)
                  => /\ ~last'.success
                     /\ last'.message = "Student not found"
                     /\ attendance' = attendance
        /\ (ImmediateReturn /\ last'.student_id \notin students)
              => /\ ~last'.success
                 /\ last'.message = "Student not found"
                 /\ attendance' = attendance
      ]_vars

\* The call returning in this step created the record of (s, d) with time_in
\* alone and left every other record as it was.
Restart(s, d) ==
    /\ last'.success
    /\ \E r \in attendance' \ attendance :
           /\ r.student_id = s /\ r.date = d
           /\ r.time_in # NULL /\ r.time_out = NULL
           /\ attendance' = attendance \cup {r}

\* C22: after the date has changed, the first call to take effect for an
\* enrolled student on the new date (the call that finds no record of the
\* student for its date) creates the record of the new date with time_in set
\* and time_out absent, whatever the student's record of the previous date,
\* and leaves every record of the other dates as it was; no such call returns
\* without writing.
C22_NewDateRestarts ==
    [][ /\ \A p \in Procs :
              (Returns(p) /\ student_id[p] \in students /\ call_today[p] > 1
                 /\ NoRecord(student_id[p], call_today[p]))
                  => Restart(student_id[p], call_today[p])
        /\ ~(ImmediateReturn /\ last'.student_id \in students /\ today > 1
               /\ NoRecord(last'.student_id, today))
      ]_vars

\* A student whose record of the previous date is complete has been marked in
\* on the new date.
C22_Witness ==
    /\ today > 1
    /\ last.success
    /\ Complete(last.student_id, today - 1)
    /\ InOnly(last.student_id, today)

\* C23: a probe embedding that is all zeros is never accepted: recognize_face
\* returns matched = false for every pool and every threshold, a threshold of
\* 0 included.
C23_ZeroProbeNeverAccepted ==
    (result.run /\ IsZeroVector(embedding1.elems) /\ Len(embedding1.elems) > 0)
        => ~result.matched

\* A zero probe has been compared with a non-empty pool under threshold 0.
C23_Witness ==
    /\ result.run
    /\ Len(embedding1.elems) > 0
    /\ IsZeroVector(embedding1.elems)
    /\ threshold = 0
    /\ Len(known_embeddings) > 0
    /\ ~result.matched

\* C24: every result of recognize_face is well formed: confidence lies in
\* [0, 1]; identity is None whenever matched is false; and whenever matched is
\* true the identity is that of a candidate of the pool whose similarity to
\* the probe is the confidence reported.
C24_ResultWellFormed ==
    result.run =>
        /\ result.confidence >= 0
        /\ result.confidence <= SimScale
        /\ ~result.matched => result.identity = None
        /\ result.matched =>
               \E i \in 1..Len(known) :
                   known[i] = <<result.identity, result.confidence>>

\* A candidate has been matched below similarity 1.0 in a pool that also
\* holds a negative similarity.
C24_Witness ==
    /\ result.run
    /\ result.matched
    /\ result.confidence < SimScale
    /\ \E i \in 1..Len(known) : known[i][2] < 0

\* C25: every mark_attendance call that returns success = false (already
\* complete, entry already marked, exit before entry, exit already marked,
\* student not found, or a caught database error), in either implementation,
\* leaves the attendance table exactly as it was before the call: the step
\* that returns writes nothing, and no earlier step of the call writes.
C25_FailureWritesNothing ==
    [][ /\ ((last' # NoCall /\ ~last'.success) => attendance' = attendance)
        /\ \A p \in Procs :
              (pc'[p] # pc[p] /\ pc'[p] # "idle") => attendance' = attendance
      ]_vars

\* An INSERT has been refused by the database and the call returned failure.
C25_Witness ==
    /\ last.message = "Error marking attendance"
    /\ ~last.success
    /\ last.student_id \in students
    /\ attendance # {}

\* C26: after delete_student(id) has returned success, no later
\* AttendanceRepository.mark_attendance(id), manual or the second step of
\* mark_attendance_by_recognition, creates or changes an attendance record:
\* where every deletion precedes the call's student check, the write step of
\* a call for a deleted student leaves the table as it was.
C26_DeletedNeverMarked ==
    [][ \A p \in Procs :
            (pc[p] = "write" /\ pc'[p] = "idle" /\ student_id[p] \in students \ active)
                => attendance' = attendance
      ]_vars

\* C27: enrollment is all-or-nothing: whenever add_student_with_photos returns
\* failure, in StudentRepository or in the legacy db.py, a call with no images
\* or images that yield no embedding included, no student row and no
\* face_embeddings row written by the call remains.
C27_EnrollmentAllOrNothing ==
    [][ (last'.action = "ADD" /\ ~last'.success)
            => (students' = students /\ face_embeddings' = face_embeddings)
      ]_vars

\* C28: starting with at least one admin user, after any sequence of
\* delete_user and delete_all_users_except_admin calls, two delete_user calls
\* on different admins that interleave between the count of the admins and
\* the DELETE included, at least one admin user remains.
C28_AnAdminRemains == \E u \in users : u.role = "admin"

\* The row of users registered with email e.
UserOf(usrs, e) == CHOOSE u \in usrs : u.email = e

Registered(e) == \E u \in users : u.email = e

\* C29: reset_password changes a user's password only if the token supplied
\* equals the token most recently stored for the email by
\* initiate_password_reset and that token has not expired; once a reset has
\* succeeded, a later call that supplies the same token is rejected; and a
\* rejected reset leaves password_hash and the stored token as they were.
C29_ResetNeedsFreshToken ==
    [][ /\ \A u \in users : \A v \in users' :
              (u.id = v.id /\ u.password_hash # v.password_hash)
                  => \E p \in Procs :
                        /\ upc[p] = "update" /\ upc'[p] = "idle"
                        /\ uarg[p].email = u.email
        /\ \A p \in Procs :
              /\ (upc[p] = "update" /\ upc'[p] = "idle" /\ reply'.success)
                    => /\ UserOf(users, uarg[p].email).reset_token = uarg[p].token
                       /\ UserOf(users, uarg[p].email).reset_token_expires > clock
              /\ (upc[p] = "idle" /\ upc'[p] = "update")
                    => <<uarg'[p].email, uarg'[p].token>> \notin consumed
        /\ (reply'.op = "reset" /\ ~reply'.success) => users' = users
      ]_vars

\* C30: initiate_password_reset does not reveal whether an email is
\* registered: for a registered and an unregistered well-formed email, in the
\* same database state, the (success, message, token) returned are identical.
C30_ResetHidesRegistration ==
    \A e1, e2 \in Emails : \A mail \in Mails :
        (Registered(e1) /\ ~Registered(e2))
            => initiate_password_reset_result(users, e1, nextToken, mail)
                 = initiate_password_reset_result(users, e2, nextToken, mail)

====
